---- MODULE Spec2Model ----
(***************************************************************************)
(* The Weibo -> Twitter polling bridge.  Two revisions of main() forward   *)
(* statuses: src/unnamed/part_000 (source-aware filter, application error  *)
(* field, time-of-day sleep) and src/main.go (keyword filter, fixed        *)
(* sleep).  Both share the cursor loop:                                    *)
(*   seed fetch -> for { fetch(start); range statuses; advance; sleep }    *)
(* Go strings are modelled as sequences of UTF-8 bytes, []rune as          *)
(* sequences of code points.                                               *)
(***************************************************************************)
EXTENDS Integers, Sequences, FiniteSets, TLC

\* ------------------------------------------------------------- bounds
MaxID == 3       \* statuses the source timeline ever holds (ids 1..MaxID)
MaxCycle == 2    \* the cycle counter saturates here

\* -------------------------------------------------- program constants
TweetLimit == 140
EllipsisLen == 4
Count == 100
WorkFrom == 7
WorkTo == 19
WorkSleep == 180
NightSleep == 300
MainSleep == 30

VARIABLES
    variant,    \* which revision runs: "part_000" or "main"
    pc,         \* position of main()
    fatalMsg,   \* message of the log.Fatal that ended the process, "" if none
    timeline,   \* the source platform's home timeline, oldest first, id = index
    lastReq,    \* since_id of the last request sent (bytes), <<>> before any
    statuses,   \* main's statuses variable
    err,        \* main's err variable after a fetch: "nil" or the failure
    start,      \* main's start variable: the cursor
    i,          \* index of the range loop over statuses
    tweets,     \* the calls made to client.Statuses.Update, in order
    seedIDs,    \* ids fetchStatus(0) returned to the seed step
    cycle       \* number of loop fetches issued, saturating at MaxCycle

vars == <<variant, pc, fatalMsg, timeline, lastReq, statuses, err, start, i,
          tweets, seedIDs, cycle>>

\* ------------------------------------------------------ strings, runes

\* string(rune): the UTF-8 encoding of one code point
EncodeRune(r) ==
    IF r < 128 THEN <<r>>
    ELSE IF r < 2048 THEN <<192 + (r \div 64), 128 + (r % 64)>>
    ELSE IF r < 65536
        THEN <<224 + (r \div 4096), 128 + ((r \div 64) % 64), 128 + (r % 64)>>
    ELSE <<240 + (r \div 262144), 128 + ((r \div 4096) % 64),
           128 + ((r \div 64) % 64), 128 + (r % 64)>>

RECURSIVE StringBetween(_, _, _)
\* the encodings of runes[lo..hi] in order, joined by halves
StringBetween(runes, lo, hi) ==
    IF lo > hi THEN <<>>
    ELSE IF lo = hi THEN EncodeRune(runes[lo])
    ELSE LET mid == (lo + hi) \div 2 IN
         StringBetween(runes, lo, mid) \o StringBetween(runes, mid + 1, hi)

\* string(runes)
String(runes) == StringBetween(runes, 1, Len(runes))

IsCont(s, k) == k <= Len(s) /\ s[k] >= 128 /\ s[k] < 192

\* the code point decoded at byte k of s, and its width; an ill-formed byte
\* decodes to U+FFFD of width 1
DecodeRune(s, k) ==
    LET b == s[k] IN
    IF b < 128 THEN [r |-> b, w |-> 1]
    ELSE IF b >= 194 /\ b < 224 /\ IsCont(s, k + 1)
        THEN [r |-> (b - 192) * 64 + (s[k + 1] - 128), w |-> 2]
    ELSE IF b >= 224 /\ b < 240 /\ IsCont(s, k + 1) /\ IsCont(s, k + 2)
        THEN [r |-> (b - 224) * 4096 + (s[k + 1] - 128) * 64 + (s[k + 2] - 128),
              w |-> 3]
    ELSE IF b >= 240 /\ b < 245 /\ IsCont(s, k + 1) /\ IsCont(s, k + 2)
            /\ IsCont(s, k + 3)
        THEN [r |-> (b - 240) * 262144 + (s[k + 1] - 128) * 4096
                    + (s[k + 2] - 128) * 64 + (s[k + 3] - 128),
              w |-> 4]
    ELSE [r |-> 65533, w |-> 1]

\* byte k of s begins a code point of the left-to-right decoding: no code
\* point that begins within the three bytes before it extends over it (a
\* code point wider than one byte begins at a non-continuation byte and
\* extends over continuation bytes only)
RuneStart(s, k) ==
    \A j \in (k - 3)..(k - 1) : j >= 1 => DecodeRune(s, j).w <= k - j

RECURSIVE RunesBetween(_, _, _)
\* the code points that begin in s[lo..hi] in order, joined by halves
RunesBetween(s, lo, hi) ==
    IF lo > hi THEN <<>>
    ELSE IF lo = hi
        THEN (IF RuneStart(s, lo) THEN <<DecodeRune(s, lo).r>> ELSE <<>>)
    ELSE LET mid == (lo + hi) \div 2 IN
         RunesBetween(s, lo, mid) \o RunesBetween(s, mid + 1, hi)

\* []rune(s)
Runes(s) == RunesBetween(s, 1, Len(s))

\* strings.Contains(s, substr): byte-wise substring
Contains(s, substr) ==
    \E k \in 0..(Len(s) - Len(substr)) :
        SubSeq(s, k + 1, k + Len(substr)) = substr

RECURSIVE Sprint(_)
\* fmt.Sprint of a non-negative int64: its decimal digits
Sprint(n) ==
    IF n < 10 THEN <<48 + n>> ELSE Sprint(n \div 10) \o <<48 + (n % 10)>>

\* fmt.Sprintf("%v: %v", name, text)
Sprintf(name, text) == name \o <<58, 32>> \o text

\* ------------------------------------------------------- string literals
Bitcoin == <<230, 175, 148, 231, 137, 185, 229, 184, 129>>    \* "比特币"
Announcement == <<229, 133, 172, 229, 145, 138>>              \* "公告"
Dear == <<229, 176, 138, 230, 149, 172>>                      \* "尊敬"
Customer == <<231, 148, 168, 230, 136, 183>>                  \* "用户"
Huobi == <<231, 129, 171, 229, 184, 129, 231, 189, 145>>      \* "火币网"
OKCoin == <<79, 75, 67, 111, 105, 110>>                       \* "OKCoin"
YourBTCC == <<89, 111, 117, 114, 66, 84, 67, 67>>             \* "YourBTCC"
Ellipsis == <<32, 46, 46, 46>>                                \* " ..."

\* ---------------------------------------------------------------- filter

\* part_000: the screen name names an exchange
IsExchange(status) ==
    \/ Contains(status.ScreenName, Huobi)
    \/ Contains(status.ScreenName, OKCoin)
    \/ Contains(status.ScreenName, YourBTCC)

\* part_000: the text carries an official-notice marker
IsNotice(status) ==
    \/ Contains(status.Text, Announcement)
    \/ Contains(status.Text, Dear)
    \/ Contains(status.Text, Customer)

ShouldForwardAnyKeyword(status) ==
    (IsExchange(status) /\ IsNotice(status)) \/ Contains(status.Text, Bitcoin)

\* part_000: the status is not skipped by a continue
ShouldForwardExchange(status) ==
    IF IsExchange(status) THEN IsNotice(status)
    ELSE Contains(status.Text, Bitcoin)

\* main.go: the status enters the if
ShouldForwardKeyword(status) == Contains(status.Text, Bitcoin)

ShouldForward(v, status) ==
    IF v = "part_000" THEN ShouldForwardExchange(status)
    ELSE ShouldForwardKeyword(status)

\* ----------------------------------------------------------------- tweet

GenerateTweetBytes(status) ==
    LET s == Sprintf(status.Name, status.Text) IN
    IF Len(s) > TweetLimit
        THEN SubSeq(s, 1, TweetLimit - EllipsisLen) \o Ellipsis
        ELSE s

\* the text handed to client.Statuses.Update
GenerateTweet(status) ==
    LET runes == Runes(Sprintf(status.Name, status.Text)) IN
    String(IF Len(runes) > TweetLimit
           THEN Runes(String(SubSeq(runes, 1, TweetLimit - EllipsisLen))
                      \o Ellipsis)
           ELSE runes)

\* ----------------------------------------------------------------- fetch

\* time.Parse("Mon Jan 2 15:04:05 -0700 2006", raw) on the timestamps the
\* timeline carries
ParseTime(raw) ==
    CASE raw = "Tue May 31 17:46:55 +0800 2011"
            -> [ok |-> TRUE, unix |-> 1306835215]
      [] OTHER -> [ok |-> FALSE, unix |-> 0]

\* fetchJSON: GET, then decode the body into the timeline struct.  The struct
\* of main.go has no Error field, so the decoder drops it there.
FetchJSON(v, resp) ==
    IF ~resp.transport THEN [err |-> "failed to GET", Statuses |-> <<>>,
                             Error |-> <<>>]
    ELSE IF ~resp.json THEN [err |-> "failed to decode body", Statuses |-> <<>>,
                             Error |-> <<>>]
    ELSE [err |-> "nil", Statuses |-> resp.Statuses,
          Error |-> IF v = "part_000" THEN resp.Error ELSE <<>>]

Converted(sts) ==
    [k \in 1..Len(sts) |->
        [sts[k] EXCEPT !.CreatedAt = ParseTime(sts[k].RawCreatedAt).unix]]

BadTimes(sts) == {k \in 1..Len(sts) : ~ParseTime(sts[k].RawCreatedAt).ok}

FetchStatusPartial(v, resp) ==
    LET r == FetchJSON(v, resp) IN
    IF r.err # "nil" THEN [statuses |-> <<>>, err |-> r.err]
    ELSE IF r.Error # <<>> THEN [statuses |-> <<>>, err |-> "failed to fetch status"]
    ELSE IF BadTimes(r.Statuses) # {}
        THEN [statuses |-> Converted(r.Statuses), err |-> "failed to convert time"]
    ELSE [statuses |-> Converted(r.Statuses), err |-> "nil"]

\* fetchStatus, given the response its request received: (statuses, err)
FetchStatus(v, resp) ==
    LET r == FetchJSON(v, resp) IN
    IF r.err # "nil" THEN [statuses |-> <<>>, err |-> r.err]
    ELSE IF r.Error # <<>> THEN [statuses |-> <<>>, err |-> "failed to fetch status"]
    ELSE IF BadTimes(r.Statuses) # {}
        THEN [statuses |-> <<>>, err |-> "failed to convert time"]
    ELSE [statuses |-> Converted(r.Statuses), err |-> "nil"]

SinceIDZero(sinceID) == Sprint(0)

\* the since_id parameter of the request fetchStatus(sinceID) sends
SinceIDParam(sinceID) == Sprint(sinceID)

\* ------------------------------------------------------- source platform

RECURSIVE Atoi(_, _)
\* the source platform reading the since_id parameter
Atoi(s, k) == IF k = 0 THEN 0 ELSE 10 * Atoi(s, k - 1) + (s[k] - 48)

MaxOf(S) == CHOOSE x \in S : \A y \in S : y <= x

RECURSIVE NewestFirst(_)
NewestFirst(S) ==
    IF S = {} THEN <<>> ELSE <<MaxOf(S)>> \o NewestFirst(S \ {MaxOf(S)})

\* One page of the timeline for a request: at most Count statuses, every id
\* greater than since_id, newest first.
Pages(sinceParam) ==
    LET since == Atoi(sinceParam, Len(sinceParam))
        newer == {id \in 1..Len(timeline) : id > since}
    IN  {[k \in 1..Len(NewestFirst(ids)) |-> timeline[NewestFirst(ids)[k]]] :
            ids \in {S \in SUBSET newer : Cardinality(S) <= Count}}

\* The responses a request can receive: no response, a body that is not the
\* JSON envelope, an envelope with the error field set, a page with one
\* timestamp not in the layout, a page.
Responses(sinceParam) ==
    LET none == [transport |-> FALSE, json |-> FALSE, Error |-> <<>>,
                 Statuses |-> <<>>]
    IN  {none, [none EXCEPT !.transport = TRUE]}
        \cup {[transport |-> TRUE, json |-> TRUE, Error |-> e, Statuses |-> p] :
                e \in {<<>>, <<101, 114, 114>>}, p \in Pages(sinceParam)}
        \cup {[transport |-> TRUE, json |-> TRUE, Error |-> <<>>,
               Statuses |-> [p EXCEPT ![k].RawCreatedAt = "2011-05-31 17:46:55"]] :
                <<p, k>> \in {pk \in Pages(sinceParam) \X (1..MaxID + 1) :
                                pk[2] <= Len(pk[1])}}

\* ------------------------------------------------------------------ main

NewStartReset(sts, cur) == IF Len(sts) > 0 THEN sts[1].ID ELSE 0

NewStartOldest(sts, cur) == IF Len(sts) > 0 THEN sts[Len(sts)].ID ELSE cur

\* if len(statuses) > 0 { start = statuses[0].ID }
NewStart(sts, cur) == IF Len(sts) > 0 THEN sts[1].ID ELSE cur

SeedStartOldest(sts) == IF Len(sts) > 0 THEN sts[Len(sts)].ID ELSE 0

\* var start int64; if len(statuses) > 0 { start = statuses[0].ID }
SeedStart(sts) == IF Len(sts) > 0 THEN sts[1].ID ELSE 0

AfterSeedFatal(e) == IF e # "nil" THEN "fatal" ELSE "fetch"

\* where main goes after the seed fetch: the error is logged only
AfterSeed(e) == "fetch"

AfterUpdateBreak(k, n, ok) == IF ok THEN k + 1 ELSE n + 1

\* the range index after client.Statuses.Update returned: both branches log
AfterUpdate(k, n, ok) == k + 1

\* the argument of time.Sleep, in seconds
SleepSeconds(v, hour) ==
    IF v = "part_000"
        THEN (IF hour >= WorkFrom /\ hour <= WorkTo THEN WorkSleep ELSE NightSleep)
        ELSE MainSleep

\* ------------------------------------------------------------- timeline

News == <<110, 101, 119, 115>>          \* "news"
GoodTime == "Tue May 31 17:46:55 +0800 2011"

Post(screen, text) ==
    [Name |-> <<97>>, ScreenName |-> screen, ID |-> 0,
     RawCreatedAt |-> GoodTime, Text |-> text, CreatedAt |-> 0]

\* what an account of the timeline may post; each revision forwards two of
\* the three and skips one
Posts ==
    { Post(News, Bitcoin),                  \* forwarded by both revisions
      Post(OKCoin, Bitcoin),                \* forwarded by main.go only
      Post(OKCoin, Announcement) }          \* forwarded by part_000 only

\* --------------------------------------------------------------- actions

Init ==
    /\ variant \in {"part_000", "main"}
    /\ pc = "loadConfig"
    /\ fatalMsg = ""
    /\ timeline = <<>>
    /\ lastReq = <<>>
    /\ statuses = <<>>
    /\ err = "nil"
    /\ start = 0
    /\ i = 0
    /\ tweets = <<>>
    /\ seedIDs = {}
    /\ cycle = 0

\* an account of the home timeline posts a status; the source gives it the
\* next id.  What is posted while main is elsewhere is seen at the next fetch,
\* so posting is placed right before the fetches.
NewStatus ==
    /\ pc \in {"seed", "fetch"}
    /\ Len(timeline) < MaxID
    /\ \E p \in Posts :
        timeline' = Append(timeline, [p EXCEPT !.ID = Len(timeline) + 1])
    /\ UNCHANGED <<variant, pc, fatalMsg, lastReq, statuses, err, start, i,
                   tweets, seedIDs, cycle>>

LoadConfig ==
    /\ pc = "loadConfig"
    /\ \E ok \in BOOLEAN :
        IF ok THEN pc' = "verify" /\ fatalMsg' = fatalMsg
        ELSE pc' = "fatal" /\ fatalMsg' = "Unable to load config:"
    /\ UNCHANGED <<variant, timeline, lastReq, statuses, err, start, i, tweets,
                   seedIDs, cycle>>

VerifyCredentials ==
    /\ pc = "verify"
    /\ \E ok \in BOOLEAN :
        IF ok
        THEN /\ pc' = (IF variant = "part_000" THEN "loadLocation" ELSE "seed")
             /\ fatalMsg' = fatalMsg
        ELSE pc' = "fatal" /\ fatalMsg' = "Failed to verify Twitter credentials:"
    /\ UNCHANGED <<variant, timeline, lastReq, statuses, err, start, i, tweets,
                   seedIDs, cycle>>

LoadLocation ==
    /\ pc = "loadLocation"
    /\ \E ok \in BOOLEAN :
        IF ok THEN pc' = "seed" /\ fatalMsg' = fatalMsg
        ELSE pc' = "fatal" /\ fatalMsg' = "Failed to load CST time:"
    /\ UNCHANGED <<variant, timeline, lastReq, statuses, err, start, i, tweets,
                   seedIDs, cycle>>

\* statuses, err := fetchStatus(0); start from its first status
SeedFetch ==
    /\ pc = "seed"
    /\ lastReq' = SinceIDParam(0)
    /\ \E resp \in Responses(lastReq') :
        LET r == FetchStatus(variant, resp) IN
        /\ statuses' = r.statuses
        /\ err' = r.err
        /\ start' = SeedStart(r.statuses)
        /\ seedIDs' = {r.statuses[k].ID : k \in 1..Len(r.statuses)}
        /\ pc' = AfterSeed(r.err)
        /\ fatalMsg' = (IF pc' = "fatal" THEN "Error fetching weibo:" ELSE fatalMsg)
    /\ UNCHANGED <<variant, timeline, i, tweets, cycle>>

\* statuses, err = fetchStatus(start)
Fetch ==
    /\ pc = "fetch"
    /\ lastReq' = SinceIDParam(start)
    /\ \E resp \in Responses(lastReq') :
        LET r == FetchStatus(variant, resp) IN
        /\ statuses' = r.statuses
        /\ err' = r.err
    /\ i' = 1
    /\ cycle' = (IF cycle < MaxCycle THEN cycle + 1 ELSE cycle)
    /\ pc' = "range"
    /\ UNCHANGED <<variant, fatalMsg, timeline, start, tweets, seedIDs>>

\* one iteration of for _, status := range statuses
ForEach ==
    /\ pc = "range"
    /\ i <= Len(statuses)
    /\ LET status == statuses[i] IN
        IF ShouldForward(variant, status)
        THEN \E ok \in BOOLEAN :
                /\ tweets' = Append(tweets, [ID |-> status.ID,
                                             text |-> GenerateTweet(status),
                                             ok |-> ok])
                /\ i' = AfterUpdate(i, Len(statuses), ok)
        ELSE /\ tweets' = tweets
             /\ i' = i + 1
    /\ UNCHANGED <<variant, pc, fatalMsg, timeline, lastReq, statuses, err,
                   start, seedIDs, cycle>>

\* the range is over: advance the cursor
Advance ==
    /\ pc = "range"
    /\ i > Len(statuses)
    /\ start' = NewStart(statuses, start)
    /\ pc' = "sleep"
    /\ UNCHANGED <<variant, fatalMsg, timeline, lastReq, statuses, err, i,
                   tweets, seedIDs, cycle>>

Sleep ==
    /\ pc = "sleep"
    /\ {hour \in 0..23 : SleepSeconds(variant, hour) > 0} # {}
    /\ pc' = "fetch"
    /\ UNCHANGED <<variant, fatalMsg, timeline, lastReq, statuses, err, start,
                   i, tweets, seedIDs, cycle>>

Next ==
    \/ NewStatus
    \/ LoadConfig
    \/ VerifyCredentials
    \/ LoadLocation
    \/ SeedFetch
    \/ Fetch
    \/ ForEach
    \/ Advance
    \/ Sleep

Spec == Init /\ [][Next]_vars

\* ------------------------------------------- the loop body on one status

\* a text of n code points: the keyword, a notice marker, then ASCII and
\* three-byte characters in turn
LongText(n) ==
    Bitcoin \o Announcement
        \o String([k \in 1..(n - 5) |-> IF k % 2 = 0 THEN 97 ELSE 24065])

BodyNames == { <<97>>, <<79, 75, 229, 184, 129>> }          \* "a", "OK币"

BodyScreens ==
    { News, OKCoin, Huobi, YourBTCC,
      <<79, 75>>,                                           \* "OK"
      OKCoin \o <<67, 78>> }                                \* "OKCoinCN"

BodyTexts ==
    { <<97, 98, 99>>, Bitcoin, Announcement \o <<97>>, <<98>> \o Dear, Customer,
      Bitcoin \o Customer, SubSeq(Bitcoin, 1, 6) \o <<97>> \o SubSeq(Bitcoin, 7, 9),
      String([k \in 1..60 |-> 24065]) }
    \cup { LongText(n) : n \in 134..139 }

\* main at the head of the loop after a seed fetch that returned nothing,
\* the timeline holding one status
InitBody ==
    /\ variant \in {"part_000", "main"}
    /\ pc = "fetch"
    /\ fatalMsg = ""
    /\ \E name \in BodyNames, screen \in BodyScreens, text \in BodyTexts :
        timeline = << [Post(screen, text) EXCEPT !.Name = name, !.ID = 1] >>
    /\ lastReq = SinceIDParam(0)
    /\ statuses = <<>>
    /\ err = "nil"
    /\ start = 0
    /\ i = 0
    /\ tweets = <<>>
    /\ seedIDs = {}
    /\ cycle = 0

NextBody ==
    \/ Fetch
    \/ ForEach
    \/ Advance
    \/ Sleep

SpecBody == InitBody /\ [][NextBody]_vars

\* ---------------------------------------------------------------- claims

IDsOf(sts) == {sts[k].ID : k \in 1..Len(sts)}

CallsFor(id) == {k \in 1..Len(tweets) : tweets[k].ID = id}

\* C1: over any sequence of poll cycles, Statuses.Update is called at most
\* once for every status id.
AtMostOnce ==
    \A a, b \in 1..Len(tweets) : tweets[a].ID = tweets[b].ID => a = b

\* C1 witness: several statuses were published, one publish failed, and a
\* later cycle's fetch failed.
AtMostOnceWitness ==
    /\ pc = "sleep"
    /\ cycle = MaxCycle
    /\ err # "nil"
    /\ Len(tweets) >= 2
    /\ \E k \in 1..Len(tweets) : ~tweets[k].ok

\* C2: no step of the program decreases the cursor.
CursorNeverDecreases == [][start' >= start]_vars

\* C2 witness: the cursor was seeded, has since advanced past the seed, and
\* the last cycle's fetch failed.
CursorNeverDecreasesWitness ==
    /\ pc = "sleep"
    /\ err # "nil"
    /\ seedIDs # {}
    /\ \A id \in seedIDs : start > id

\* C3: no status the seed fetch returned is ever published; the seed fetch
\* publishes nothing and sets the cursor to the id of its first status.
SeedNeverForwarded ==
    /\ \A k \in 1..Len(tweets) : tweets[k].ID \notin seedIDs
    /\ (pc = "fetch" /\ cycle = 0) =>
            /\ tweets = <<>>
            /\ statuses # <<>> => start = statuses[1].ID

\* C3 witness: the seed fetch returned two statuses, one of which the filter
\* accepts, and a later cycle published something.
SeedNeverForwardedWitness ==
    /\ Cardinality(seedIDs) >= 2
    /\ \E id \in seedIDs : ShouldForward(variant, timeline[id])
    /\ Len(tweets) >= 1

\* C4: in a cycle whose fetch returned an error, no step publishes and no
\* step changes the cursor.
FetchErrorCycleInert ==
    [][ ( \/ (pc = "fetch" /\ pc' = "range" /\ err' # "nil")
          \/ (pc = "range" /\ err # "nil") )
        => (tweets' = tweets /\ start' = start) ]_vars

\* C4 witness: a cycle ended after a timestamp of its page failed to parse,
\* with statuses newer than the cursor on the timeline and earlier publishes.
FetchErrorCycleInertWitness ==
    /\ pc = "sleep"
    /\ err = "failed to convert time"
    /\ start > 0
    /\ Len(timeline) > start
    /\ Len(tweets) >= 1

\* C5: the step that ends a cycle whose fetch succeeded leaves the cursor at
\* the greatest id of the batch, or unchanged when the batch is empty.
CursorAdvance ==
    [][ (pc = "range" /\ pc' = "sleep" /\ err = "nil")
        => start' = (IF statuses = <<>> THEN start ELSE MaxOf(IDsOf(statuses))) ]_vars

\* C5 witness: a cycle after a non-empty seed ended with a batch of at least
\* two statuses and the cursor at the first one's id.
CursorAdvanceWitness ==
    /\ pc = "sleep"
    /\ err = "nil"
    /\ seedIDs # {}
    /\ Len(statuses) >= 2
    /\ start = statuses[1].ID

PayloadRunes(id) ==
    Runes(timeline[id].Name) \o <<58, 32>> \o Runes(timeline[id].Text)

\* C6: a published text is the payload name + ": " + text when that has at
\* most 140 code points; otherwise it has exactly 140 code points, the first
\* 136 of the payload followed by " ...".
TruncationLaw ==
    \A k \in 1..Len(tweets) :
        LET payload == PayloadRunes(tweets[k].ID)
            out == Runes(tweets[k].text)
        IN  IF Len(payload) > 140
            THEN /\ Len(out) = 140
                 /\ SubSeq(out, 1, 136) = SubSeq(payload, 1, 136)
                 /\ SubSeq(out, 137, 140) = <<32, 46, 46, 46>>
            ELSE tweets[k].text
                    = timeline[tweets[k].ID].Name \o <<58, 32>>
                        \o timeline[tweets[k].ID].Text

\* C6 witness: a payload of more than 140 code points was published as 140
\* code points that take more than 140 bytes.
TruncationLawWitness ==
    \E k \in 1..Len(tweets) :
        /\ Len(PayloadRunes(tweets[k].ID)) > 140
        /\ Len(Runes(tweets[k].text)) = 140
        /\ Len(tweets[k].text) > 140

ExchangeHandle(status) ==
    \E e \in {Huobi, OKCoin, YourBTCC} : Contains(status.ScreenName, e)

NoticeMarker(status) ==
    \E m \in {Announcement, Dear, Customer} : Contains(status.Text, m)

\* C7: in part_000, once a batch is processed, Statuses.Update was called for
\* a status of it exactly when its handle is an exchange's and its text has a
\* notice marker, or its handle is not an exchange's and its text has the
\* keyword.
FilterPolicy ==
    (variant = "part_000" /\ pc = "sleep") =>
        \A k \in 1..Len(statuses) :
            (CallsFor(statuses[k].ID) # {})
                <=> \/ ExchangeHandle(statuses[k]) /\ NoticeMarker(statuses[k])
                    \/ ~ExchangeHandle(statuses[k])
                        /\ Contains(statuses[k].Text, Bitcoin)

\* C7 witness: a status of handle OKCoin with the marker and without the
\* keyword was published by part_000.
FilterPolicyWitness ==
    /\ variant = "part_000"
    /\ pc = "sleep"
    /\ Len(statuses) = 1
    /\ statuses[1].ScreenName = OKCoin
    /\ Contains(statuses[1].Text, Announcement)
    /\ ~Contains(statuses[1].Text, Bitcoin)
    /\ CallsFor(statuses[1].ID) # {}

\* C8: of two published statuses of the same batch, the one with the smaller
\* id is published first.
PublishOldestFirst ==
    \A a, b \in 1..Len(tweets) :
        (a < b /\ tweets[a].ID \in IDsOf(statuses) /\ tweets[b].ID \in IDsOf(statuses))
            => tweets[a].ID < tweets[b].ID

\* C9: a failed publish is never repeated, and at the end of a cycle every
\* status of the batch the filter accepts has been handed to Statuses.Update
\* once, failed or not, and the cursor is at the batch's first id.
PublishFailureSkips ==
    /\ \A k \in 1..Len(tweets) :
        ~tweets[k].ok => Cardinality(CallsFor(tweets[k].ID)) = 1
    /\ (pc = "sleep" /\ err = "nil") =>
        /\ \A k \in 1..Len(statuses) :
            ShouldForward(variant, statuses[k])
                => Cardinality(CallsFor(statuses[k].ID)) = 1
        /\ statuses # <<>> => start = statuses[1].ID

\* C9 witness: a cycle ended in which the publish of the batch's first status
\* failed and the batch's second status was published after it.
PublishFailureSkipsWitness ==
    /\ pc = "sleep"
    /\ err = "nil"
    /\ Len(statuses) >= 2
    /\ start = statuses[1].ID
    /\ \E a, b \in 1..Len(tweets) :
        /\ a < b
        /\ tweets[a].ID = statuses[1].ID
        /\ ~tweets[a].ok
        /\ tweets[b].ID = statuses[2].ID

\* C10: the process ends abnormally only before the seed fetch, on one of the
\* three startup failures; a seed fetch that fails or returns nothing leaves
\* the cursor 0, the first cycle then asks for since_id 0 and publishes every
\* status of its batch that the filter accepts.
SeedFallback ==
    /\ pc = "fatal" =>
        /\ lastReq = <<>>
        /\ fatalMsg \in {"Unable to load config:",
                         "Failed to verify Twitter credentials:",
                         "Failed to load CST time:"}
    /\ (pc = "fetch" /\ cycle = 0 /\ statuses = <<>>) => start = 0
    /\ (cycle = 1 /\ seedIDs = {}) => lastReq = <<48>>
    /\ (cycle = 1 /\ seedIDs = {} /\ pc = "sleep") =>
        \A k \in 1..Len(statuses) :
            ShouldForward(variant, statuses[k]) => CallsFor(statuses[k].ID) # {}

\* C10 witness: the seed fetch gave no status and the first cycle published
\* two statuses.
SeedFallbackWitness ==
    /\ cycle = 1
    /\ seedIDs = {}
    /\ pc = "sleep"
    /\ Len(statuses) >= 2
    /\ Len(tweets) >= 2

====
